---- MODULE Spec2Model ----
(***************************************************************************)
(* Bare-metal serial output drivers of the renode demos.                   *)
(*                                                                         *)
(*   hello_world_m33/hello_world_m33.c   PL011 driver and its main loop    *)
(*   multi-machine_demo/machine1.c       NS16550 driver, two UARTs         *)
(*   multi-machine_demo/uart_test.c      NS16550 driver, two UARTs         *)
(*                                                                         *)
(* Every C function is a small-step process: one action per statement      *)
(* that touches a register or a loop head, with a program counter per      *)
(* function (ipc, cpc, spc, npc) and one for the caller (mpc).  A hardware  *)
(* status register is read as a nondeterministic value.                    *)
(*                                                                         *)
(* uint32_t values that may exceed 2^31-1 are kept as two 16-bit limbs     *)
(* <<hi, lo>>; register values and bytes are plain naturals.               *)
(* Plain char is unsigned on both targets (ARM AAPCS, RISC-V psABI), so a   *)
(* char is a natural in 0..255.                                            *)
(***************************************************************************)
EXTENDS Integers, Sequences, FiniteSets, TLC

\* ------------------------------------------------------------------ bounds
MaxLen == 3          \* longest string handed to uart_puts by the harness
MaxCalls == 3        \* driver calls the harness makes (the first is uart_init)
MaxPolls == 2        \* the ghost count of "full" flag reads saturates here
MaxSmallNum == 12    \* the harness prints every number in 0..MaxSmallNum
MaxIter == 3         \* iterations of the loop of memory_exploration that are followed

\* --------------------------------------------------------- bytes and words
Byte == 0..255
NUL == 0
LF == 10
CR_CH == 13
ZERO_CH == 48

\* The bytes the harness builds its strings from: terminator, line feed,
\* carriage return, 'H', 'i' and a byte above 0x7F.
Chars == {NUL, LF, CR_CH, 72, 105, 255}

RECURSIVE SeqsUpTo(_, _)
SeqsUpTo(S, n) ==
  IF n = 0 THEN {<<>>}
  ELSE LET shorter == SeqsUpTo(S, n - 1)
       IN  shorter \cup {Append(s, x) : s \in {t \in shorter : Len(t) = n - 1}, x \in S}

Strings == SeqsUpTo(Chars, MaxLen)

Pow2(k) == 2 ^ k

RECURSIVE BitOr(_, _)
BitOr(a, b) ==
  IF a = 0 THEN b
  ELSE IF b = 0 THEN a
  ELSE (IF a % 2 = 1 \/ b % 2 = 1 THEN 1 ELSE 0) + 2 * BitOr(a \div 2, b \div 2)

RECURSIVE BitAnd(_, _)
BitAnd(a, b) ==
  IF a = 0 \/ b = 0 THEN 0
  ELSE (IF a % 2 = 1 /\ b % 2 = 1 THEN 1 ELSE 0) + 2 * BitAnd(a \div 2, b \div 2)

\* uint32_t as <<hi, lo>>, value hi * 65536 + lo.
Limb == Pow2(16)
U32(n) == <<n \div Limb, n % Limb>>
U32IsZero(n) == n[1] = 0 /\ n[2] = 0
U32Mod10(n) == ((n[1] % 10) * Limb + n[2]) % 10
U32Div8(n) == <<n[1] \div 8, ((n[1] % 8) * Limb + n[2]) \div 8>>
U32Div10(n) == <<n[1] \div 10, ((n[1] % 10) * Limb + n[2]) \div 10>>
U32Inc(n) == IF n[2] = Limb - 1 THEN <<(n[1] + 1) % Limb, 0>> ELSE <<n[1], n[2] + 1>>
U32GeSmall(n, k) == n[1] > 0 \/ n[2] >= k
U32GtSmall(n, k) == n[1] > 0 \/ n[2] > k
U32_MAX == <<Limb - 1, Limb - 1>>
U32Mul2(n) == <<(2 * n[1] + (2 * n[2]) \div Limb) % Limb, (2 * n[2]) % Limb>>
U32Sub(a, b) ==
  IF a[2] >= b[2] THEN <<(a[1] - b[1] + Limb) % Limb, a[2] - b[2]>>
  ELSE <<(a[1] - b[1] - 1 + 2 * Limb) % Limb, a[2] - b[2] + Limb>>

\* The numbers the harness prints: the small ones, every power of ten with
\* its neighbours below, the limb boundary and the top of the range.
Nums ==
  {U32(n) : n \in 0..MaxSmallNum}
  \cup {U32(10 ^ k) : k \in 1..9} \cup {U32(10 ^ k - 1) : k \in 1..9}
  \cup {U32(65535), U32(65536), U32(2147483647), <<32768, 0>>,
        <<61035, 10240>>, <<65535, 65526>>, U32_MAX}

\* ------------------------------------------------------- PL011 definitions
UART_FR_TXFF == Pow2(5)
UART_FR_BUSY == Pow2(3)
UART_CR_UARTEN == Pow2(0)
UART_CR_TXE == Pow2(8)
UART_CR_RXE == Pow2(9)
UART_LCRH_WLEN8 == 3 * Pow2(5)
UART_LCRH_FEN == Pow2(4)

\* UART_FR & UART_FR_TXFF, as the condition of the polling loop.
TxFull(v) == BitAnd(v, UART_FR_TXFF) # 0

\* The registers that hold what the program stores; UART_DR is a port into
\* the transmit FIFO, a store to it is an output event and nothing to keep.
CfgRegs == {"IBRD", "FBRD", "LCRH", "CR", "IMSC"}

\* Values the flag register can show: every combination of TXFF and BUSY.
FRValues == {0, UART_FR_BUSY, UART_FR_TXFF, UART_FR_BUSY + UART_FR_TXFF}

\* Register contents the program may find at entry (reset values, or what an
\* earlier boot stage left behind).
RegInitStates ==
  [IBRD : {0, 13, 26}, FBRD : {0, 1}, LCRH : {0, 112},
   CR : {0, 768, 769}, IMSC : {0, 2047}]

VARIABLES
  regs,      \* PL011 registers the program writes
  fr,        \* the value the last read of UART_FR returned
  wlog,      \* ghost: register writes <<reg, value>> of the current top-level call
             \*        (consecutive top-level uart_putchar calls count as one)
  calls,     \* ghost: arguments of the uart_putchar calls over the same span
  readySince,\* ghost: a not-full flag read has happened since the last data-register write
  nfull,     \* ghost: full flag reads in the current uart_putchar call (saturating)
  ready,     \* ghost: uart_init has run to completion at least once
  inits,     \* ghost: completed uart_init calls
  after1,    \* ghost: configuration registers when the first uart_init returned
  ipc,       \* uart_init: 0 idle, k the k-th register write is next, 7 the delay
  cpc, pch,  \* uart_putchar: position and argument c
  spc, str, sp,            \* uart_puts: position, the memory at str, index of *str
  npc, num, buffer, ptr,   \* uart_put_number: position and locals
  cur,       \* the top-level call in progress or last finished
  ncalls,    \* harness: calls started
  mpc, counter,            \* hello_world main: position and counter
  nsProg,    \* which NS16550 program runs: "machine1", "uart_test" or "calls"
  nsPc, nsI, \* _start: position and loop variable i
  mmio,      \* NS16550 registers of both UARTs as the program stores them, by address
  lsrv,      \* the value the last read of *lsr returned
  thrlog,    \* ghost: stores to a transmit-holding register, <<address, byte>>
  lastAcc,   \* ghost: address of the last register access of the current call (0: none)
  nsReady,   \* ghost: per UART, an initialization sequence has completed
  nsBase,    \* uart_putc / uart_puts: argument base
  nsCpc, nsC,              \* uart_putc: position and argument c
  nsSpc, nsS, nsSp,        \* uart_puts: position, the memory at s, index of *s
  hist,      \* ghost of hello_world main: the last value handed to uart_put_number
             \*        and the reset messages sent since
  mePc, meI, \* memory_exploration: position and the fill loop's i
  mem,       \* memory_test: the words of SRAM the program touches, by address
  gvAddr, taAddr,          \* where the build placed global_var and test_array
  temp,      \* memory_exploration: the local temp
  iters,     \* ghost: loop iterations completed since the program started
  meN        \* ghost: loop iterations this run has taken (bounded by MaxIter)

plVars == <<regs, fr, wlog, calls, readySince, nfull, ready, inits, after1,
            ipc, cpc, pch, spc, str, sp, npc, num, buffer, ptr, cur>>
nsVars == <<nsProg, nsPc, nsI, mmio, lsrv, thrlog, lastAcc, nsReady,
            nsBase, nsCpc, nsC, nsSpc, nsS, nsSp>>
mainVars == <<ncalls, mpc, counter, hist>>
memVars == <<mePc, meI, mem, gvAddr, taAddr, temp, iters, meN>>
\* What no step of the PL011 driver touches.
outerVars == <<mainVars, nsVars, memVars>>
vars == <<plVars, mainVars, nsVars, memVars>>

NoCall == [op |-> "none", s |-> <<>>, n |-> <<0, 0>>, c |-> 0]
Call(op, s, n, c) == [op |-> op, s |-> s, n |-> n, c |-> c]

\* Every function has returned to the top-level caller.
Idle == ipc = 0 /\ cpc = "idle" /\ spc = "idle" /\ npc = "idle"

\* ----------------------------------------------------------- register file
\* A volatile store REG = v.
RegWriteAdd(rs, r, v) == IF r \in CfgRegs THEN [rs EXCEPT ![r] = (@ + v) % Limb] ELSE rs
RegWrite(rs, r, v) == IF r \in CfgRegs THEN [rs EXCEPT ![r] = v] ELSE rs


\* ------------------------------------------------------------- uart_init
uart_init_swapped ==
  << <<"CR", BitOr(UART_CR_UARTEN, BitOr(UART_CR_TXE, UART_CR_RXE))>>,
     <<"IBRD", 13>>, <<"FBRD", 1>>,
     <<"LCRH", BitOr(UART_LCRH_WLEN8, UART_LCRH_FEN)>>,
     <<"IMSC", 0>>,
     <<"CR", 0>> >>
\* The register stores of uart_init in program order.
uart_init_writes ==
  << <<"CR", 0>>,
     <<"IBRD", 13>>, <<"FBRD", 1>>,
     <<"LCRH", BitOr(UART_LCRH_WLEN8, UART_LCRH_FEN)>>,
     <<"IMSC", 0>>,
     <<"CR", BitOr(UART_CR_UARTEN, BitOr(UART_CR_TXE, UART_CR_RXE))>> >>

InitDelayPc == Len(uart_init_writes) + 1

\* One store of uart_init.
uart_init_step ==
  /\ ipc \in 1..Len(uart_init_writes)
  /\ LET w == uart_init_writes[ipc]
     IN  /\ regs' = RegWrite(regs, w[1], w[2])
         /\ wlog' = Append(wlog, w)
  /\ ipc' = ipc + 1
  /\ UNCHANGED <<fr, calls, readySince, nfull, ready, inits, after1,
                 cpc, pch, spc, str, sp, npc, num, buffer, ptr, cur>>
  /\ UNCHANGED outerVars

\* delay(1000), then return: a countdown that touches no register.
uart_init_delay ==
  /\ ipc = InitDelayPc
  /\ ipc' = 0
  /\ ready' = TRUE
  /\ inits' = inits + 1
  /\ after1' = IF inits = 0 THEN regs ELSE after1
  /\ UNCHANGED <<regs, fr, wlog, calls, readySince, nfull,
                 cpc, pch, spc, str, sp, npc, num, buffer, ptr, cur>>
  /\ UNCHANGED outerVars

\* ----------------------------------------------------------- uart_putchar
\* Where the polling loop goes after reading flag value v (k: full reads so far).
PollExitNoWait(v, k) == "write"
PollExitTimeout(v, k) == IF TxFull(v) /\ k < 1 THEN "poll" ELSE "write"
PollExit(v, k) == IF TxFull(v) THEN "poll" ELSE "write"

\* The register uart_putchar stores the character to.
PutcharRegCtl == "CR"
PutcharReg == "DR"

\* while (UART_FR & UART_FR_TXFF) { }  -- one read of the flag register.
uart_putchar_poll ==
  /\ cpc = "poll"
  /\ \E v \in FRValues :
       /\ fr' = v
       /\ cpc' = PollExit(v, nfull)
       /\ readySince' = (readySince \/ ~TxFull(v))
       /\ nfull' = IF TxFull(v) /\ nfull < MaxPolls THEN nfull + 1 ELSE nfull
  /\ UNCHANGED <<regs, wlog, calls, ready, inits, after1, ipc, pch,
                 spc, str, sp, npc, num, buffer, ptr, cur>>
  /\ UNCHANGED outerVars

\* UART_DR = c; return.
uart_putchar_write ==
  /\ cpc = "write"
  /\ regs' = RegWrite(regs, PutcharReg, pch)
  /\ wlog' = Append(wlog, <<PutcharReg, pch>>)
  /\ readySince' = FALSE
  /\ cpc' = "idle"
  /\ pch' = 0
  /\ fr' = 0
  /\ UNCHANGED <<calls, nfull, ready, inits, after1, ipc,
                 spc, str, sp, npc, num, buffer, ptr, cur>>
  /\ UNCHANGED outerVars

\* The effect of calling uart_putchar(c) on the callee's variables.
EnterPutchar(c) ==
  /\ pch' = c
  /\ cpc' = "poll"
  /\ nfull' = 0


\* -------------------------------------------------------------- uart_puts
\* The byte sequence a C string s occupies in memory: s and its terminator.
CString(s) == s \o <<NUL>>

\* str outside a call of uart_puts.
NoString == <<NUL>>

\* The effect of calling uart_puts(p), where m is the memory from p onwards.
EnterPuts(m) ==
  /\ str' = m
  /\ sp' = 1
  /\ spc' = "loop"

\* if (*str == '\n'): the character needs a carriage return sent first.
NeedsCRNever(ch) == FALSE
NeedsCR(ch) == ch = LF

\* while (*str): the byte that ends the loop.
AtEndOrCR(ch) == ch = NUL \/ ch = CR_CH
AtEnd(ch) == ch = NUL

\* while (*str): the loop head, reached at entry and when
\* uart_putchar(*str++) has returned.  An LF first sends a CR.
uart_puts_loop ==
  /\ spc = "loop"
  /\ cpc = "idle"
  /\ IF AtEnd(str[sp])
       THEN /\ spc' = "idle"
            /\ str' = NoString
            /\ sp' = 1
            /\ UNCHANGED <<pch, cpc, nfull, calls>>
       ELSE IF NeedsCR(str[sp])
         THEN /\ EnterPutchar(CR_CH)
              /\ calls' = Append(calls, CR_CH)
              /\ spc' = "cr"
              /\ UNCHANGED <<str, sp>>
         ELSE /\ EnterPutchar(str[sp])
              /\ calls' = Append(calls, str[sp])
              /\ sp' = sp + 1
              /\ UNCHANGED <<str, spc>>
  /\ UNCHANGED <<regs, fr, wlog, readySince, ready, inits, after1, ipc,
                 npc, num, buffer, ptr, cur>>
  /\ UNCHANGED outerVars

\* uart_putchar('\r') has returned: uart_putchar(*str++).
uart_puts_after_cr ==
  /\ spc = "cr"
  /\ cpc = "idle"
  /\ EnterPutchar(str[sp])
  /\ calls' = Append(calls, str[sp])
  /\ sp' = sp + 1
  /\ spc' = "loop"
  /\ UNCHANGED <<regs, fr, wlog, readySince, ready, inits, after1, ipc,
                 str, npc, num, buffer, ptr, cur>>
  /\ UNCHANGED outerVars

\* -------------------------------------------------------- uart_put_number
BufSize == 12
Garbage == {170}

\* buffer, num and ptr outside a call of uart_put_number.
NoBuffer == [i \in 0..(BufSize - 1) |-> 0]

\* The memory from buffer + p to the end of the buffer.
BufferFrom(b, p) == [i \in 1..(BufSize - p) |-> b[p + i - 1]]

\* The character stored for the low digit of n.
DigitCharHex(n) == ZERO_CH + (n[2] % 16)
DigitChar(n) == ZERO_CH + U32Mod10(n)

\* char buffer[12]; ptr = buffer + sizeof(buffer) - 1; *ptr = '\0';
EnterPutNumber(n) ==
  /\ num' = n
  /\ ptr' = BufSize - 1
  /\ \E g \in Garbage : buffer' = [i \in 0..(BufSize - 1) |-> IF i = BufSize - 1 THEN NUL ELSE g]
  /\ npc' = "if"

\* if (num == 0) *(--ptr) = '0';
uart_put_number_if ==
  /\ npc = "if"
  /\ IF U32IsZero(num)
       THEN /\ ptr' = ptr - 1
            /\ buffer' = [buffer EXCEPT ![ptr - 1] = ZERO_CH]
            /\ npc' = "puts"
       ELSE /\ npc' = "while"
            /\ UNCHANGED <<ptr, buffer>>
  /\ UNCHANGED <<regs, fr, wlog, calls, readySince, nfull, ready, inits, after1,
                 ipc, cpc, pch, spc, str, sp, num, cur>>
  /\ UNCHANGED outerVars

\* while (num > 0) { *(--ptr) = '0' + (num % 10); num /= 10; }
uart_put_number_while ==
  /\ npc = "while"
  /\ IF ~U32IsZero(num)
       THEN /\ ptr' = ptr - 1
            /\ buffer' = [buffer EXCEPT ![ptr - 1] = DigitChar(num)]
            /\ num' = U32Div10(num)
            /\ UNCHANGED npc
       ELSE /\ npc' = "puts"
            /\ UNCHANGED <<ptr, buffer, num>>
  /\ UNCHANGED <<regs, fr, wlog, calls, readySince, nfull, ready, inits, after1,
                 ipc, cpc, pch, spc, str, sp, cur>>
  /\ UNCHANGED outerVars

\* uart_puts(ptr);
uart_put_number_puts ==
  /\ npc = "puts"
  /\ EnterPuts(BufferFrom(buffer, ptr))
  /\ npc' = "ret"
  /\ UNCHANGED <<regs, fr, wlog, calls, readySince, nfull, ready, inits, after1,
                 ipc, cpc, pch, num, buffer, ptr, cur>>
  /\ UNCHANGED outerVars

\* uart_puts has returned: return.
uart_put_number_ret ==
  /\ npc = "ret"
  /\ spc = "idle"
  /\ npc' = "idle"
  /\ num' = <<0, 0>>
  /\ ptr' = 0
  /\ buffer' = NoBuffer
  /\ UNCHANGED <<regs, fr, wlog, calls, readySince, nfull, ready, inits, after1,
                 ipc, cpc, pch, spc, str, sp, cur>>
  /\ UNCHANGED outerVars

\* ------------------------------------------------- top-level calls (caller)
\* uart_init();
StartInit ==
  /\ Idle
  /\ cur' = Call("init", <<>>, <<0, 0>>, 0)
  /\ ipc' = 1
  /\ wlog' = <<>>
  /\ calls' = <<>>
  /\ UNCHANGED <<regs, fr, readySince, nfull, ready, inits, after1,
                 cpc, pch, spc, str, sp, npc, num, buffer, ptr>>

\* uart_putchar(c);
StartPutchar(c) ==
  /\ Idle
  /\ cur' = Call("putchar", <<>>, <<0, 0>>, c)
  /\ EnterPutchar(c)
  /\ wlog' = IF cur.op = "putchar" THEN wlog ELSE <<>>
  /\ calls' = Append(IF cur.op = "putchar" THEN calls ELSE <<>>, c)
  /\ UNCHANGED <<regs, fr, readySince, ready, inits, after1, ipc,
                 spc, str, sp, npc, num, buffer, ptr>>

\* uart_puts(s);
StartPuts(s) ==
  /\ Idle
  /\ cur' = Call("puts", s, <<0, 0>>, 0)
  /\ EnterPuts(CString(s))
  /\ wlog' = <<>>
  /\ calls' = <<>>
  /\ UNCHANGED <<regs, fr, readySince, nfull, ready, inits, after1, ipc,
                 cpc, pch, npc, num, buffer, ptr>>

\* uart_put_number(n);
StartPutNumber(n) ==
  /\ Idle
  /\ cur' = Call("put_number", <<>>, n, 0)
  /\ EnterPutNumber(n)
  /\ wlog' = <<>>
  /\ calls' = <<>>
  /\ UNCHANGED <<regs, fr, readySince, nfull, ready, inits, after1, ipc,
                 cpc, pch, spc, str, sp>>

\* ----------------------------------------------------------- driver harness
\* A caller that initializes the UART and then makes any MaxCalls - 1 further
\* driver calls with arguments from Chars, Strings and Nums.  Between two
\* calls it drops the record of the finished one (CallDone); uart_putchar
\* may also follow uart_putchar directly, the record running on.
CallDone ==
  /\ Idle
  /\ cur.op # "none"
  /\ cur' = NoCall
  /\ wlog' = <<>>
  /\ calls' = <<>>
  /\ UNCHANGED <<regs, fr, readySince, nfull, ready, inits, after1,
                 ipc, cpc, pch, spc, str, sp, npc, num, buffer, ptr>>
  /\ UNCHANGED outerVars

CallInit ==
  /\ ncalls < MaxCalls
  /\ cur.op = "none"
  /\ StartInit
  /\ ncalls' = ncalls + 1
  /\ UNCHANGED <<mpc, counter, hist, nsVars, memVars>>

CallPutchar ==
  /\ ncalls < MaxCalls
  /\ ready
  /\ cur.op \in {"none", "putchar"}
  /\ \E c \in Chars : StartPutchar(c)
  /\ ncalls' = ncalls + 1
  /\ UNCHANGED <<mpc, counter, hist, nsVars, memVars>>

CallPuts ==
  /\ ncalls < MaxCalls
  /\ ready
  /\ cur.op = "none"
  /\ \E s \in Strings : StartPuts(s)
  /\ ncalls' = ncalls + 1
  /\ UNCHANGED <<mpc, counter, hist, nsVars, memVars>>

CallPutNumber ==
  /\ ncalls < MaxCalls
  /\ ready
  /\ cur.op = "none"
  /\ \E n \in Nums : StartPutNumber(n)
  /\ ncalls' = ncalls + 1
  /\ UNCHANGED <<mpc, counter, hist, nsVars, memVars>>

\* ------------------------------------------------- hello_world_m33 main
\* The string literals of main, as bytes.
BannerRule ==
  <<61, 61, 61, 61, 61, 61, 61, 61, 61, 61, 61, 61, 61, 61, 61, 61, 61, 61,
    61, 61, 61, 61, 61, 61, 61, 61, 61, 61, 61, 61, 61, 61, 61, 61, 61, 61,
    61, 61, 61, 61, 61, 61, 61, 10>>

BannerRuleBlank ==
  <<61, 61, 61, 61, 61, 61, 61, 61, 61, 61, 61, 61, 61, 61, 61, 61, 61, 61,
    61, 61, 61, 61, 61, 61, 61, 61, 61, 61, 61, 61, 61, 61, 61, 61, 61, 61,
    61, 61, 61, 61, 61, 61, 61, 10, 10>>

BannerTitle ==
  <<65, 82, 77, 32, 67, 111, 114, 116, 101, 120, 45, 77, 51, 51, 32, 67,
    117, 115, 116, 111, 109, 32, 66, 111, 97, 114, 100, 32, 68, 101, 109,
    111, 10>>

BannerBoard ==
  <<66, 111, 97, 114, 100, 58, 32, 67, 117, 115, 116, 111, 109, 32, 65, 82,
    77, 32, 67, 111, 114, 116, 101, 120, 45, 77, 51, 51, 32, 66, 111, 97,
    114, 100, 32, 40, 82, 101, 110, 111, 100, 101, 41, 10>>

BannerCpu ==
  <<67, 80, 85, 58, 32, 65, 82, 77, 32, 67, 111, 114, 116, 101, 120, 45,
    77, 51, 51, 32, 64, 32, 49, 48, 48, 77, 72, 122, 10>>

BannerMemory ==
  <<77, 101, 109, 111, 114, 121, 58, 32, 49, 77, 66, 32, 70, 108, 97, 115,
    104, 32, 43, 32, 50, 53, 54, 75, 66, 32, 83, 82, 65, 77, 10>>

BannerUart ==
  <<85, 65, 82, 84, 58, 32, 80, 76, 48, 49, 49, 32, 64, 32, 49, 49, 53, 50,
    48, 48, 32, 98, 97, 117, 100, 10>>

BannerStarting ==
  <<83, 116, 97, 114, 116, 105, 110, 103, 32, 99, 111, 117, 110, 116, 101,
    114, 32, 100, 101, 109, 111, 110, 115, 116, 114, 97, 116, 105, 111,
    110, 46, 46, 46, 10>>

BannerThis ==
  <<84, 104, 105, 115, 32, 100, 101, 109, 111, 110, 115, 116, 114, 97, 116,
    101, 115, 32, 98, 97, 115, 105, 99, 32, 85, 65, 82, 84, 32, 99, 111,
    109, 109, 117, 110, 105, 99, 97, 116, 105, 111, 110, 10>>

BannerAnd ==
  <<97, 110, 100, 32, 116, 105, 109, 105, 110, 103, 32, 111, 110, 32, 97,
    32, 99, 117, 115, 116, 111, 109, 32, 65, 82, 77, 32, 67, 111, 114, 116,
    101, 120, 45, 77, 51, 51, 32, 98, 111, 97, 114, 100, 46, 10, 10>>

\* The uart_puts calls main makes before its loop, in order.
HelloBanner ==
  <<BannerRule, BannerTitle, BannerRule, BannerBoard, BannerCpu, BannerMemory,
    BannerUart, BannerRuleBlank, BannerStarting, BannerThis, BannerAnd>>

CounterText ==
  <<67, 111, 117, 110, 116, 101, 114, 58, 32>>

RunningText ==
  <<32, 45, 32, 67, 111, 114, 116, 101, 120, 45, 77, 51, 51, 32, 105, 115,
    32, 114, 117, 110, 110, 105, 110, 103, 33, 10>>

ResetText ==
  <<10, 45, 45, 45, 32, 67, 111, 117, 110, 116, 101, 114, 32, 114, 101,
    115, 101, 116, 32, 45, 45, 45, 10, 10>>

CounterLimit == 100
LoopHead == Len(HelloBanner) + 1

\* uart_init();
main_init ==
  /\ mpc = 0
  /\ StartInit
  /\ mpc' = 1
  /\ UNCHANGED <<ncalls, counter, hist, nsVars, memVars>>

\* uart_puts("...") of the startup message, one call per step.
main_banner ==
  /\ mpc \in 1..Len(HelloBanner)
  /\ StartPuts(HelloBanner[mpc])
  /\ mpc' = mpc + 1
  /\ UNCHANGED <<ncalls, counter, hist, nsVars, memVars>>

\* uart_puts("Counter: ");
main_loop_label ==
  /\ mpc = LoopHead
  /\ StartPuts(CounterText)
  /\ mpc' = LoopHead + 1
  /\ UNCHANGED <<ncalls, counter, hist, nsVars, memVars>>

\* uart_put_number(counter);
main_loop_number ==
  /\ mpc = LoopHead + 1
  /\ StartPutNumber(counter)
  /\ hist' = [last |-> counter, resets |-> 0]
  /\ mpc' = LoopHead + 2
  /\ UNCHANGED <<ncalls, counter, nsVars, memVars>>

\* uart_puts(" - Cortex-M33 is running!\n");
main_loop_running ==
  /\ mpc = LoopHead + 2
  /\ StartPuts(RunningText)
  /\ mpc' = LoopHead + 3
  /\ UNCHANGED <<ncalls, counter, hist, nsVars, memVars>>

\* counter++;
main_loop_incr ==
  /\ mpc = LoopHead + 3
  /\ Idle
  /\ counter' = U32Inc(counter)
  /\ mpc' = LoopHead + 4
  /\ UNCHANGED <<plVars, ncalls, hist, nsVars, memVars>>

\* delay(2000000);
main_loop_delay ==
  /\ mpc = LoopHead + 4
  /\ mpc' = LoopHead + 5
  /\ UNCHANGED <<plVars, ncalls, counter, hist, nsVars, memVars>>

\* if (counter > 100) { counter = 0; uart_puts("\n--- Counter reset ---\n\n"); }
main_loop_reset ==
  /\ mpc = LoopHead + 5
  /\ IF U32GtSmall(counter, CounterLimit)
       THEN /\ counter' = <<0, 0>>
            /\ StartPuts(ResetText)
            /\ hist' = [hist EXCEPT !.resets = @ + 1]
       ELSE UNCHANGED <<plVars, counter, hist>>
  /\ mpc' = LoopHead
  /\ UNCHANGED <<ncalls, nsVars, memVars>>

\* ------------------------------------------------- memory_test.c
SRAM_BASE == 536870912
WordBytes == 4
ArrayLen == 16
FillBase == 4096

\* volatile uint32_t global_var = 0x12345678;
GlobalInit == <<4660, 22136>>

\* 0xDEADBEEF, 0xCAFEBABE, 0xFEEDFACE: the test patterns, in program order.
Patterns == <<(<<57005, 48879>>), (<<51966, 47806>>), (<<65261, 64206>>)>>

\* The words of SRAM that are followed: as many as the three poked words,
\* global_var and test_array take when they lie apart.
MemWords == Len(Patterns) + 1 + ArrayLen
WordAddr(w) == SRAM_BASE + WordBytes * w
SramAddrs == {WordAddr(w) : w \in 0..(MemWords - 1)}

\* Where the linker has put global_var and test_array: anywhere in the
\* followed words, the two objects not overlapping.  The source does not fix
\* it, and the stores through sram_ptr land on whatever lies at SRAM_BASE.
Layouts ==
  {l \in [gv : SramAddrs, ta : {WordAddr(w) : w \in 0..(MemWords - ArrayLen)}] :
     l.gv \notin {l.ta + WordBytes * i : i \in 0..(ArrayLen - 1)}}

\* Memory at the call of memory_exploration: global_var holds its
\* initializer, test_array and the rest are zero.
MemAtEntry(l) == [a \in SramAddrs |-> IF a = l.gv THEN GlobalInit ELSE <<0, 0>>]

\* *(sram_ptr + k) = pattern
Poke(m, k) == [m EXCEPT ![WordAddr(k)] = Patterns[k + 1]]

\* test_array[i] = 0x1000 + i
Fill(m, ta, i) == [m EXCEPT ![ta + WordBytes * i] = U32(FillBase + i)]

\* m after the first n stores through sram_ptr.
RECURSIVE Poked(_, _)
Poked(m, n) == IF n = 0 THEN m ELSE Poke(Poked(m, n - 1), n - 1)

\* m after the first n rounds of the fill loop.
RECURSIVE Filled(_, _, _)
Filled(m, ta, n) == IF n = 0 THEN m ELSE Fill(Filled(m, ta, n - 1), ta, n - 1)

\* Memory when the while (1) loop is first reached.
MemAtLoop(l) == Filled(Poked(MemAtEntry(l), Len(Patterns)), l.ta, ArrayLen)

\* *sram_ptr = 0xDEADBEEF; *(sram_ptr + 1) = 0xCAFEBABE; *(sram_ptr + 2) = 0xFEEDFACE;
me_poke ==
  /\ mePc = "poke"
  /\ mem' = Poke(mem, meI)
  /\ IF meI + 1 < Len(Patterns)
       THEN meI' = meI + 1 /\ mePc' = mePc
       ELSE meI' = 0 /\ mePc' = "fill"
  /\ UNCHANGED <<gvAddr, taAddr, temp, iters, meN>>
  /\ UNCHANGED <<plVars, mainVars, nsVars>>

\* for (int i = 0; i < 16; i++) test_array[i] = 0x1000 + i;
me_fill ==
  /\ mePc = "fill"
  /\ IF meI < ArrayLen
       THEN /\ mem' = Fill(mem, taAddr, meI)
            /\ meI' = meI + 1
            /\ mePc' = mePc
       ELSE /\ meI' = 0
            /\ mePc' = "inc"
            /\ mem' = mem
  /\ UNCHANGED <<gvAddr, taAddr, temp, iters, meN>>
  /\ UNCHANGED <<plVars, mainVars, nsVars>>

\* global_var++;
me_inc ==
  /\ mePc = "inc"
  /\ meN < MaxIter
  /\ mem' = [mem EXCEPT ![gvAddr] = U32Inc(mem[gvAddr])]
  /\ mePc' = "load"
  /\ UNCHANGED <<meI, gvAddr, taAddr, temp, iters, meN>>
  /\ UNCHANGED <<plVars, mainVars, nsVars>>

\* volatile uint32_t temp = global_var;
me_load ==
  /\ mePc = "load"
  /\ temp' = mem[gvAddr]
  /\ mePc' = "mul"
  /\ UNCHANGED <<meI, mem, gvAddr, taAddr, iters, meN>>
  /\ UNCHANGED <<plVars, mainVars, nsVars>>

\* temp = temp * 2;
me_mul ==
  /\ mePc = "mul"
  /\ temp' = U32Mul2(temp)
  /\ mePc' = "store"
  /\ UNCHANGED <<meI, mem, gvAddr, taAddr, iters, meN>>
  /\ UNCHANGED <<plVars, mainVars, nsVars>>

\* test_array[0] = temp;
me_store ==
  /\ mePc = "store"
  /\ mem' = [mem EXCEPT ![taAddr] = temp]
  /\ mePc' = "delay"
  /\ UNCHANGED <<meI, gvAddr, taAddr, temp, iters, meN>>
  /\ UNCHANGED <<plVars, mainVars, nsVars>>

\* for (volatile int delay = 0; delay < 1000; delay++);  and back to the
\* head of the loop: temp goes out of scope, one more iteration is complete.
me_delay ==
  /\ mePc = "delay"
  /\ mePc' = "inc"
  /\ temp' = <<0, 0>>
  /\ iters' = U32Inc(iters)
  /\ meN' = meN + 1
  /\ UNCHANGED <<meI, mem, gvAddr, taAddr>>
  /\ UNCHANGED <<plVars, mainVars, nsVars>>

\* ------------------------------------------- NS16550 driver (multi-machine)
UART0_BASE == 268513280
UART1_BASE == 268578816
UART_THR == 0
UART_LSR == 20
UART_LSR_THRE == 32

Bases == {UART0_BASE, UART1_BASE}

\* The eight registers of one NS16550, four bytes apart.
RegSet(b) == {b + 4 * k : k \in 0..7}
Addrs == RegSet(UART0_BASE) \cup RegSet(UART1_BASE)

\* Values the line status register can show: THRE and TEMT in every combination.
LSRValues == {0, UART_LSR_THRE, 64, UART_LSR_THRE + 64}

\* volatile uint8_t *lsr = base + UART_LSR, *thr = base + UART_THR.
LsrAddr(base) == base + UART_LSR
ThrAddrFixed(base) == UART0_BASE + UART_THR
ThrAddr(base) == base + UART_THR

\* *lsr & UART_LSR_THRE
ThrEmptyInverted(v) == BitAnd(v, UART_LSR_THRE) = 0
ThrEmpty(v) == BitAnd(v, UART_LSR_THRE) # 0

NsIdle == nsCpc = "idle" /\ nsSpc = "idle"

\* The effect of calling uart_putc(base, c) on the callee's variables.
NsEnterPutc(c) ==
  /\ nsC' = c
  /\ nsCpc' = "poll"

\* while (!(*lsr & UART_LSR_THRE));  -- one read of the line status register.
uart_putc_poll ==
  /\ nsCpc = "poll"
  /\ \E v \in LSRValues :
       /\ lsrv' = v
       /\ nsCpc' = IF ThrEmpty(v) THEN "write" ELSE "poll"
  /\ lastAcc' = LsrAddr(nsBase)
  /\ UNCHANGED <<nsProg, nsPc, nsI, mmio, thrlog, nsReady, nsBase, nsC, nsSpc, nsS, nsSp>>
  /\ UNCHANGED <<plVars, mainVars, memVars>>

\* *thr = c; return.
uart_putc_write ==
  /\ nsCpc = "write"
  /\ mmio' = [mmio EXCEPT ![ThrAddr(nsBase)] = nsC]
  /\ thrlog' = Append(thrlog, <<ThrAddr(nsBase), nsC>>)
  /\ lastAcc' = ThrAddr(nsBase)
  /\ nsCpc' = "idle"
  /\ nsC' = 0
  /\ lsrv' = 0
  /\ UNCHANGED <<nsProg, nsPc, nsI, nsReady, nsBase, nsSpc, nsS, nsSp>>
  /\ UNCHANGED <<plVars, mainVars, memVars>>

\* The effect of calling uart_puts(base, s), where m is the memory from s onwards.
NsEnterPuts(m) ==
  /\ nsS' = m
  /\ nsSp' = 1
  /\ nsSpc' = "loop"

\* while (*s) { if (*s == '\n') uart_putc(base, '\r'); uart_putc(base, *s++); }
\* The loop head, reached at entry and when uart_putc(base, *s++) has returned.
ns_uart_puts_loop ==
  /\ nsSpc = "loop"
  /\ nsCpc = "idle"
  /\ IF nsS[nsSp] = NUL
       THEN /\ nsSpc' = "idle"
            /\ nsS' = NoString
            /\ nsSp' = 1
            /\ UNCHANGED <<nsC, nsCpc>>
       ELSE IF nsS[nsSp] = LF
         THEN /\ NsEnterPutc(CR_CH)
              /\ nsSpc' = "cr"
              /\ UNCHANGED <<nsS, nsSp>>
         ELSE /\ NsEnterPutc(nsS[nsSp])
              /\ nsSp' = nsSp + 1
              /\ UNCHANGED <<nsS, nsSpc>>
  /\ UNCHANGED <<nsProg, nsPc, nsI, mmio, lsrv, thrlog, lastAcc, nsReady, nsBase>>
  /\ UNCHANGED <<plVars, mainVars, memVars>>

\* uart_putc(base, '\r') has returned: uart_putc(base, *s++).
ns_uart_puts_after_cr ==
  /\ nsSpc = "cr"
  /\ nsCpc = "idle"
  /\ NsEnterPutc(nsS[nsSp])
  /\ nsSp' = nsSp + 1
  /\ nsSpc' = "loop"
  /\ UNCHANGED <<nsProg, nsPc, nsI, mmio, lsrv, thrlog, lastAcc, nsReady, nsBase, nsS>>
  /\ UNCHANGED <<plVars, mainVars, memVars>>

\* uart_putc(base, c); from _start.  keep: the ghost log runs on.
NsStartPutc(base, c, keep) ==
  /\ NsIdle
  /\ nsBase' = base
  /\ NsEnterPutc(c)
  /\ lastAcc' = 0
  /\ thrlog' = IF keep THEN thrlog ELSE <<>>
  /\ UNCHANGED <<nsSpc, nsS, nsSp, mmio, lsrv, nsReady>>

\* uart_puts(base, s); from _start.
NsStartPuts(base, s, keep) ==
  /\ NsIdle
  /\ nsBase' = base
  /\ NsEnterPuts(CString(s))
  /\ lastAcc' = 0
  /\ thrlog' = IF keep THEN thrlog ELSE <<>>
  /\ UNCHANGED <<nsCpc, nsC, mmio, lsrv, nsReady>>

\* The string literals of machine1.c and uart_test.c, as bytes.
M1Starting ==
  <<91, 77, 97, 99, 104, 105, 110, 101, 49, 93, 32, 83, 116, 97, 114, 116,
    105, 110, 103, 46, 46, 46, 10>>

M1Sending ==
  <<91, 77, 97, 99, 104, 105, 110, 101, 49, 93, 32, 83, 101, 110, 100, 105,
    110, 103, 32, 109, 101, 115, 115, 97, 103, 101, 32>>

M1Newline ==
  <<10>>

M1Msg ==
  <<77, 83, 71>>

M1From ==
  <<32, 102, 114, 111, 109, 32, 77, 97, 99, 104, 105, 110, 101, 49, 10>>

M1Done ==
  <<91, 77, 97, 99, 104, 105, 110, 101, 49, 93, 32, 68, 111, 110, 101, 32,
    115, 101, 110, 100, 105, 110, 103, 10>>

UtStarting ==
  <<77, 97, 99, 104, 105, 110, 101, 32, 115, 116, 97, 114, 116, 105, 110,
    103, 46, 46, 46, 10>>

UtHello ==
  <<72, 101, 108, 108, 111, 32, 102, 114, 111, 109, 32, 109, 97, 99, 104,
    105, 110, 101, 33, 10>>

M1Count == 3

\* for (int i = 0; i < 3; i++): the loop test.
M1LoopTestLe(i) == i <= M1Count
M1LoopTest(i) == i < M1Count

\* machine1.c _start, one statement per position.
\*   0  uart_puts(UART0_BASE, "[Machine1] Starting...\n");
\*   1  for (int i = 0; i < 3; ...)   -- i = 0
\*   2  i < 3 ?  uart_puts(UART0_BASE, "[Machine1] Sending message ")
\*            :  uart_puts(UART0_BASE, "[Machine1] Done sending\n"), then 9
\*   3  uart_putc(UART0_BASE, '0' + i);
\*   4  uart_puts(UART0_BASE, "\n");
\*   5  uart_puts(UART1_BASE, "MSG");
\*   6  uart_putc(UART1_BASE, '0' + i);
\*   7  uart_puts(UART1_BASE, " from Machine1\n");
\*   8  the delay loop; i++
\*   9  while (1)
\*  10  wfi, until an interrupt wakes the CPU
m1_start_call ==
  /\ nsProg = "machine1"
  /\ \/ nsPc = 0 /\ NsStartPuts(UART0_BASE, M1Starting, TRUE) /\ nsPc' = 1
     \/ nsPc = 2 /\ M1LoopTest(nsI) /\ NsStartPuts(UART0_BASE, M1Sending, TRUE) /\ nsPc' = 3
     \/ nsPc = 2 /\ ~M1LoopTest(nsI) /\ NsStartPuts(UART0_BASE, M1Done, TRUE) /\ nsPc' = 9
     \/ nsPc = 3 /\ NsStartPutc(UART0_BASE, ZERO_CH + nsI, TRUE) /\ nsPc' = 4
     \/ nsPc = 4 /\ NsStartPuts(UART0_BASE, M1Newline, TRUE) /\ nsPc' = 5
     \/ nsPc = 5 /\ NsStartPuts(UART1_BASE, M1Msg, TRUE) /\ nsPc' = 6
     \/ nsPc = 6 /\ NsStartPutc(UART1_BASE, ZERO_CH + nsI, TRUE) /\ nsPc' = 7
     \/ nsPc = 7 /\ NsStartPuts(UART1_BASE, M1From, TRUE) /\ nsPc' = 8
  /\ UNCHANGED <<nsProg, nsI>>
  /\ UNCHANGED <<plVars, mainVars, memVars>>

\* int i = 0, and at the end of the body the delay loop and i++.
m1_start_loop ==
  /\ nsProg = "machine1"
  /\ NsIdle
  /\ \/ nsPc = 1 /\ nsI' = 0
     \/ nsPc = 8 /\ nsI' = nsI + 1
  /\ nsPc' = 2
  /\ UNCHANGED <<nsProg, mmio, lsrv, thrlog, lastAcc, nsReady,
                 nsBase, nsCpc, nsC, nsSpc, nsS, nsSp>>
  /\ UNCHANGED <<plVars, mainVars, memVars>>

\* while (1) { wfi }: the CPU sleeps, wakes and sleeps again.
m1_start_wfi ==
  /\ nsProg = "machine1"
  /\ nsPc \in {9, 10}
  /\ NsIdle
  /\ nsPc' = IF nsPc = 9 THEN 10 ELSE 9
  /\ UNCHANGED <<nsProg, nsI, mmio, lsrv, thrlog, lastAcc, nsReady,
                 nsBase, nsCpc, nsC, nsSpc, nsS, nsSp>>
  /\ UNCHANGED <<plVars, mainVars, memVars>>

\* uart_test.c _start: the two uart_puts calls.
ut_start_call ==
  /\ nsProg = "uart_test"
  /\ \/ nsPc = 0 /\ NsStartPuts(UART0_BASE, UtStarting, TRUE) /\ nsPc' = 1
     \/ nsPc = 1 /\ NsStartPuts(UART1_BASE, UtHello, TRUE) /\ nsPc' = 2
  /\ UNCHANGED <<nsProg, nsI>>
  /\ UNCHANGED <<plVars, mainVars, memVars>>

\* while (1) { wfi }: position 2 the loop head, 3 asleep in wfi.
ut_start_wfi ==
  /\ nsProg = "uart_test"
  /\ nsPc \in {2, 3}
  /\ NsIdle
  /\ nsPc' = IF nsPc = 2 THEN 3 ELSE 2
  /\ UNCHANGED <<nsProg, nsI, mmio, lsrv, thrlog, lastAcc, nsReady,
                 nsBase, nsCpc, nsC, nsSpc, nsS, nsSp>>
  /\ UNCHANGED <<plVars, mainVars, memVars>>

\* The bytes the NS16550 harness builds its strings from.
NsChars == {NUL, LF, 77}
NsStrings == SeqsUpTo(NsChars, MaxLen)

\* A caller that makes any MaxCalls calls of uart_putc / uart_puts on either UART.
NsCallPutc ==
  /\ nsProg = "calls"
  /\ nsPc < MaxCalls
  /\ \E b \in Bases, c \in NsChars : NsStartPutc(b, c, FALSE)
  /\ nsPc' = nsPc + 1
  /\ UNCHANGED <<nsProg, nsI>>
  /\ UNCHANGED <<plVars, mainVars, memVars>>

NsCallPuts ==
  /\ nsProg = "calls"
  /\ nsPc < MaxCalls
  /\ \E b \in Bases, s \in NsStrings : NsStartPuts(b, s, FALSE)
  /\ nsPc' = nsPc + 1
  /\ UNCHANGED <<nsProg, nsI>>
  /\ UNCHANGED <<plVars, mainVars, memVars>>

\* ------------------------------------------------------- initial states
\* The NS16550 side with no program running.
InitNsIdle ==
  /\ nsPc = 0 /\ nsI = 0
  /\ lsrv = 0
  /\ thrlog = <<>>
  /\ lastAcc = 0
  /\ nsReady = [b \in Bases |-> FALSE]
  /\ nsBase = UART0_BASE
  /\ nsCpc = "idle" /\ nsC = 0
  /\ nsSpc = "idle" /\ nsS = NoString /\ nsSp = 1

InitDriver ==
  /\ regs \in RegInitStates
  /\ fr = 0
  /\ wlog = <<>>
  /\ calls = <<>>
  /\ readySince = FALSE
  /\ nfull = 0
  /\ ready = FALSE
  /\ inits = 0
  /\ after1 = regs
  /\ ipc = 0
  /\ cpc = "idle" /\ pch = 0
  /\ spc = "idle" /\ str = NoString /\ sp = 1
  /\ npc = "idle" /\ num = <<0, 0>> /\ ptr = 0
  /\ buffer = NoBuffer
  /\ cur = NoCall

\* hist before the first uart_put_number.
NoHist == [last |-> <<-1, -1>>, resets |-> 0]

InitMain ==
  /\ ncalls = 0
  /\ mpc = 0
  /\ counter = <<0, 0>>
  /\ hist = NoHist

\* memory_test not running.
InitMemOff ==
  /\ mePc = "off" /\ meI = 0
  /\ mem = <<>>
  /\ gvAddr = 0 /\ taAddr = 0
  /\ temp = <<0, 0>>
  /\ iters = <<0, 0>>
  /\ meN = 0

InitNsOff ==
  /\ InitNsIdle
  /\ nsProg = "none"
  /\ mmio = [a \in Addrs |-> 0]

\* The PL011 driver under the harness.
Init ==
  /\ InitDriver
  /\ InitMain
  /\ InitNsOff
  /\ InitMemOff

Next ==
  \/ CallDone
  \/ CallInit
  \/ CallPutchar
  \/ CallPuts
  \/ CallPutNumber
  \/ uart_init_step
  \/ uart_init_delay
  \/ uart_putchar_poll
  \/ uart_putchar_write
  \/ uart_puts_loop
  \/ uart_puts_after_cr
  \/ uart_put_number_if
  \/ uart_put_number_while
  \/ uart_put_number_puts
  \/ uart_put_number_ret

Spec == Init /\ [][Next]_vars

\* hello_world_m33: main from reset.
InitHello ==
  /\ InitDriver
  /\ InitMain
  /\ InitNsOff
  /\ InitMemOff

NextHello ==
  \/ main_init
  \/ main_banner
  \/ main_loop_label
  \/ main_loop_number
  \/ main_loop_running
  \/ main_loop_incr
  \/ main_loop_delay
  \/ main_loop_reset
  \/ uart_init_step
  \/ uart_init_delay
  \/ uart_putchar_poll
  \/ uart_putchar_write
  \/ uart_puts_loop
  \/ uart_puts_after_cr
  \/ uart_put_number_if
  \/ uart_put_number_while
  \/ uart_put_number_puts
  \/ uart_put_number_ret

SpecHello == InitHello /\ [][NextHello]_vars

\* Register contents an NS16550 may show at entry, one value per UART.
NsRegInitValues == {0, 255}

\* The multi-machine programs and the NS16550 harness, from reset.
InitNS ==
  /\ InitDriver
  /\ regs = [r \in CfgRegs |-> 0]
  /\ InitMain
  /\ InitMemOff
  /\ InitNsIdle
  /\ nsProg \in {"machine1", "uart_test", "calls"}
  /\ \E x, y \in NsRegInitValues :
        mmio = [a \in Addrs |-> IF a \in RegSet(UART0_BASE) THEN x ELSE y]

NextNS ==
  \/ m1_start_call
  \/ m1_start_loop
  \/ m1_start_wfi
  \/ ut_start_call
  \/ ut_start_wfi
  \/ NsCallPutc
  \/ NsCallPuts
  \/ uart_putc_poll
  \/ uart_putc_write
  \/ ns_uart_puts_loop
  \/ ns_uart_puts_after_cr

SpecNS == InitNS /\ [][NextNS]_vars


\* The flag register reads "not full": the read that ends the polling loop.
PollReady == uart_putchar_poll /\ cpc' = "write"

\* uart_init and uart_puts under the harness, with a CPU that keeps
\* executing and a transmit FIFO that drains: a poll that stays possible
\* eventually reads "not full".
NextLive ==
  \/ CallDone
  \/ CallInit
  \/ CallPuts
  \/ uart_init_step
  \/ uart_init_delay
  \/ uart_putchar_poll
  \/ uart_putchar_write
  \/ uart_puts_loop
  \/ uart_puts_after_cr

SpecLive == Init /\ [][NextLive]_vars /\ WF_vars(NextLive) /\ WF_vars(PollReady)

\* memory_test.c: memory_exploration from its call by main, in every layout;
\* and, to follow global_var through the wrap at 2^32 where it lies clear of
\* the poked words, from the head of the loop in the iteration that finds
\* global_var = 0xFFFFFFFF.
InitMem ==
  /\ InitDriver
  /\ InitMain
  /\ InitNsOff
  /\ \E l \in Layouts :
       /\ gvAddr = l.gv /\ taAddr = l.ta
       /\ \/ /\ mePc = "poke"
             /\ mem = MemAtEntry(l)
             /\ iters = <<0, 0>>
          \/ /\ mePc = "inc"
             /\ MemAtLoop(l)[l.gv] = GlobalInit
             /\ mem = [MemAtLoop(l) EXCEPT ![l.gv] = U32_MAX,
                                           ![l.ta] = U32Mul2(U32_MAX)]
             /\ iters = U32Sub(U32_MAX, MemAtLoop(l)[l.gv])
  /\ meI = 0
  /\ temp = <<0, 0>>
  /\ meN = 0

NextMem ==
  \/ me_poke
  \/ me_fill
  \/ me_inc
  \/ me_load
  \/ me_mul
  \/ me_store
  \/ me_delay

SpecMem == InitMem /\ [][NextMem]_vars

\* Both drivers side by side: after uart_init, uart_puts(s) of the PL011
\* driver and uart_puts(base, s) of the NS16550 driver are called on the same
\* string and run interleaved, each against its own status register.
InitBoth ==
  /\ InitDriver
  /\ InitMain
  /\ InitMemOff
  /\ InitNsIdle
  /\ nsProg = "both"
  /\ mmio = [a \in Addrs |-> 0]

both_init ==
  /\ nsProg = "both"
  /\ ncalls = 0
  /\ StartInit
  /\ ncalls' = 1
  /\ UNCHANGED <<mpc, counter, hist, nsVars, memVars>>

both_puts ==
  /\ nsProg = "both"
  /\ ncalls = 1
  /\ ready
  /\ \E s \in NsStrings, b \in Bases :
        /\ StartPuts(s)
        /\ NsStartPuts(b, s, FALSE)
  /\ ncalls' = 2
  /\ UNCHANGED <<mpc, counter, hist, nsProg, nsPc, nsI, memVars>>

NextBoth ==
  \/ both_init
  \/ both_puts
  \/ uart_init_step
  \/ uart_init_delay
  \/ uart_putchar_poll
  \/ uart_putchar_write
  \/ uart_puts_loop
  \/ uart_puts_after_cr
  \/ uart_putc_poll
  \/ uart_putc_write
  \/ ns_uart_puts_loop
  \/ ns_uart_puts_after_cr

SpecBoth == InitBoth /\ [][NextBoth]_vars

\* ======================================================================
\* Properties of the PL011 driver (Spec)
\* ======================================================================

\* The bytes stored to the data register over the span of wlog, in order.
RECURSIVE DataBytes(_)
DataBytes(w) ==
  IF w = <<>> THEN <<>>
  ELSE IF Head(w)[1] = "DR" THEN <<Head(w)[2]>> \o DataBytes(Tail(w))
  ELSE DataBytes(Tail(w))

Wire == DataBytes(wlog)

\* s with every 0x0A replaced by 0x0D 0x0A.
RECURSIVE CrLf(_)
CrLf(s) ==
  IF s = <<>> THEN <<>>
  ELSE IF Head(s) = 10 THEN <<13, 10>> \o CrLf(Tail(s))
  ELSE <<Head(s)>> \o CrLf(Tail(s))

HasNul(s) == \E i \in 1..Len(s) : s[i] = 0

Returned(op) == cur.op = op /\ Idle

\* C1 as stated: for EVERY byte sequence s, uart_puts(s) has written s with
\* each 0x0A replaced by 0x0D 0x0A when it returns.
C1_AnySequence == Returned("puts") => Wire = CrLf(cur.s)

\* C1 (amended): for every byte sequence s that contains no 0x00 byte,
\* uart_puts(s) has written to the data register exactly s with each 0x0A
\* replaced by 0x0D 0x0A, no other byte altered, added or dropped.
C1_NulFree == (Returned("puts") /\ ~HasNul(cur.s)) => Wire = CrLf(cur.s)

\* "H\ni" has gone out as "H\r\ni".
C1_Witness == Returned("puts") /\ cur.s = <<72, 10, 105>> /\ Wire = <<72, 13, 10, 105>>

\* The value of a digit string, as <<hi, lo>> limbs (hi is not reduced, so a
\* string worth 2^32 or more equals no uint32_t).
RECURSIVE DecValue(_, _)
DecValue(d, acc) ==
  IF d = <<>> THEN acc
  ELSE LET lo10 == acc[2] * 10 + (Head(d) - 48)
       IN  DecValue(Tail(d), <<acc[1] * 10 + lo10 \div 65536, lo10 % 65536>>)

\* d is the standard base-10 numeral of n: digits only, at least one, no
\* leading zero except for "0" itself, and worth n.
IsDecimalOf(d, n) ==
  /\ Len(d) >= 1
  /\ \A i \in 1..Len(d) : d[i] \in 48..57
  /\ (Len(d) > 1 => d[1] # 48)
  /\ DecValue(d, <<0, 0>>) = n

\* C2: when uart_put_number(n) returns, the bytes it has written are the
\* standard base-10 numeral of n, most significant digit first, without
\* leading zeros, and "0" for n = 0.
C2_Decimal == Returned("put_number") => IsDecimalOf(Wire, cur.n)

\* 4294967295 has been printed in full.
C2_Witness ==
  /\ Returned("put_number")
  /\ cur.n = <<65535, 65535>>
  /\ Wire = <<52, 50, 57, 52, 57, 54, 55, 50, 57, 53>>

IsPrefix(a, b) == Len(a) <= Len(b) /\ a = SubSeq(b, 1, Len(a))

DataWritten == Len(wlog') = Len(wlog) + 1 /\ wlog'[Len(wlog')][1] = "DR"

\* C3: the bytes written to the data register are the arguments of the
\* uart_putchar calls in call order, one write per call (at most the
\* current call is still outstanding), and every data-register write
\* follows a read of the flag register that showed "not full" since the
\* previous data-register write.
C3_Order ==
  /\ [](/\ IsPrefix(Wire, calls)
        /\ Len(calls) - Len(Wire) = (IF cpc = "idle" THEN 0 ELSE 1))
  /\ [][DataWritten => readySince]_vars

\* Two top-level uart_putchar calls have completed, the later one after
\* reading the flag as full.
C3_Witness ==
  /\ Returned("putchar")
  /\ Len(calls) = 2 /\ Wire = calls
  /\ nfull > 0

\* The order of stores the initialization is specified to make.
ExpectedInitOrder ==
  << <<"CR", 0>>, <<"IBRD", 13>>, <<"FBRD", 1>>, <<"LCRH", 112>>,
     <<"IMSC", 0>>, <<"CR", 769>> >>

ConfigWritten ==
  Len(wlog') = Len(wlog) + 1 /\ wlog'[Len(wlog')][1] \in {"IBRD", "FBRD", "LCRH"}

\* C4: uart_init stores, in this order, control 0, baud integer, baud
\* fraction, line control, interrupt mask 0, control enable|TXE|RXE, and
\* only then delays; the enable bit of the control register is clear
\* whenever a baud or line-control register is stored to.
C4_InitOrder ==
  /\ [](cur.op = "init" =>
          /\ IsPrefix(wlog, ExpectedInitOrder)
          /\ Len(wlog) = (IF ipc = 0 THEN 6 ELSE ipc - 1)
          /\ (ipc = InitDelayPc => wlog = ExpectedInitOrder))
  /\ [][ConfigWritten => regs.CR % 2 = 0]_vars

\* A second uart_init, begun with the UART enabled, has made its stores
\* and is in its delay.
C4_Witness == cur.op = "init" /\ ipc = InitDelayPc /\ inits = 1 /\ Len(wlog) = 6

\* C7: after a second (or later) uart_init the control, baud, line-control
\* and interrupt-mask registers hold what they held when the first
\* uart_init returned.
C7_Idempotent == (inits >= 2 /\ ipc = 0) => regs = after1

\* uart_init has returned for the second time.
C7_Witness == Returned("init") /\ inits = 2

\* C8: once uart_init has run, the registers hold IBRD 13, FBRD 1,
\* LCRH 0x70, IMSC 0, CR 0x301, and uart_puts("Hi\n") then writes exactly
\* 'H', 'i', '\r', '\n'.
C8_EndToEnd ==
  /\ (ready /\ ipc = 0) =>
        regs = [IBRD |-> 13, FBRD |-> 1, LCRH |-> 112, IMSC |-> 0, CR |-> 769]
  /\ (Returned("puts") /\ cur.s = <<72, 105, 10>>) => Wire = <<72, 105, 13, 10>>

\* uart_puts("Hi\n") has returned on the initialized UART.
C8_Witness ==
  /\ Returned("puts") /\ cur.s = <<72, 105, 10>>
  /\ ready /\ regs.IBRD = 13 /\ regs.FBRD = 1
  /\ Len(Wire) = 4

\* C10: in uart_putchar a read of the flag register that shows "full" is
\* followed by another read and by nothing else, however many came before:
\* no store to the data register, no return.
C10_NoTimeout ==
  [][(cpc = "poll" /\ BitAnd(fr', 32) # 0) =>
       (cpc' = "poll" /\ wlog' = wlog /\ calls' = calls /\ ~Idle')]_vars

\* The call is still polling after MaxPolls full reads and has written nothing.
C10_Witness ==
  /\ cur.op = "putchar" /\ cpc = "poll"
  /\ nfull = MaxPolls
  /\ Len(Wire) < Len(calls)


\* ======================================================================
\* Properties of the programs (SpecHello, SpecNS)
\* ======================================================================

\* The UART a transmit-holding register address belongs to.
BaseOf(a) == CHOOSE b \in {268513280, 268578816} : a \in {b + 4 * k : k \in 0..7}

\* C5: in every program of the repository a store to a UART's data or
\* transmit-holding register happens only once that UART's initialization
\* sequence has finished.
C5_InitFirst ==
  /\ Wire # <<>> => ready
  /\ nsProg \in {"machine1", "uart_test"} =>
       \A i \in 1..Len(thrlog) : nsReady[BaseOf(thrlog[i][1])]

\* C6: while uart_putc / uart_puts runs with one UART's base, no register
\* of the other UART changes, a byte stored goes to a register of the base
\* passed, and every access is at base + 0x00 or base + 0x14.
C6_Independence ==
  [][(~NsIdle \/ ~NsIdle') =>
       LET b == nsBase'
           other == CHOOSE o \in {268513280, 268578816} : o # b
       IN  /\ \A k \in 0..7 : mmio'[other + 4 * k] = mmio[other + 4 * k]
           /\ (Len(thrlog') = Len(thrlog) + 1 =>
                 thrlog'[Len(thrlog')][1] \in {b + 4 * k : k \in 0..7})
           /\ lastAcc' \in {0, b, b + 20}]_vars

\* A transmit on UART0 has completed and UART1's registers still hold what
\* they held at entry.
C6_Witness ==
  /\ nsProg = "calls" /\ NsIdle
  /\ nsBase = 268513280 /\ thrlog # <<>>
  /\ mmio[268513280] = 77
  /\ \A k \in 0..7 : mmio[268578816 + 4 * k] = 255

\* C9: in hello_world_m33, once uart_init has completed no step stores to
\* a control, line-control, baud or interrupt-mask register: the control
\* register holds enable|TXE|RXE and the interrupt mask 0 ever after.
C9_ReadyTerminal ==
  /\ [](ready => (regs.CR = 769 /\ regs.IMSC = 0))
  /\ [][ready => (ready' /\ regs' = regs
                  /\ (Len(wlog') = Len(wlog) + 1 => wlog'[Len(wlog')][1] = "DR"))]_vars

\* The main loop is storing a character of the line for counter = 100.
C9_Witness ==
  /\ ready /\ mpc = 14 /\ counter = <<0, 100>>
  /\ cpc = "write" /\ Len(Wire) > 0


\* ======================================================================
\* Properties of the two drivers side by side (SpecBoth)
\* ======================================================================

\* The bytes stored to transmit-holding registers, in order.
ThrBytes(log) == [i \in 1..Len(log) |-> log[i][2]]

\* C11: on the same input string the NS16550 driver and the PL011 driver
\* write the same byte sequence (at any moment one output is a prefix of
\* the other, and they are equal once both have returned), and each write
\* is made in a step whose last status read showed "ready": THRE (bit 5 of
\* the line status) set, respectively TXFF (bit 5 of the flags) clear.
C11_SameContract ==
  /\ [](nsProg = "both" =>
          /\ IsPrefix(Wire, ThrBytes(thrlog)) \/ IsPrefix(ThrBytes(thrlog), Wire)
          /\ (ncalls = 2 /\ Returned("puts") /\ NsIdle) => Wire = ThrBytes(thrlog))
  /\ [][/\ DataWritten => BitAnd(fr, 32) = 0
        /\ Len(thrlog') = Len(thrlog) + 1 => BitAnd(lsrv, 32) # 0]_vars

\* Both drivers have sent "M\n" as "M\r\n", the PL011 one after waiting on
\* a full FIFO.
C11_Witness ==
  /\ nsProg = "both" /\ ncalls = 2 /\ Returned("puts") /\ NsIdle
  /\ cur.s = <<77, 10>>
  /\ Wire = <<77, 13, 10>> /\ ThrBytes(thrlog) = <<77, 13, 10>>
  /\ nfull > 0


\* ======================================================================
\* Termination of uart_puts (SpecLive)
\* ======================================================================

\* The string at s: the bytes before the first 0x00.
RECURSIVE Content(_)
Content(s) ==
  IF s = <<>> \/ Head(s) = 0 THEN <<>> ELSE <<Head(s)>> \o Content(Tail(s))

LineFeeds(s) == Cardinality({i \in 1..Len(s) : s[i] = 10})

\* C12: if the flag register keeps coming back to "not full", uart_puts on
\* a string of length L with k line feeds returns, and when it has
\* returned exactly L + k stores to the data register have been made.
C12_Terminates ==
  /\ [](Returned("puts") =>
          Len(Wire) = Len(Content(cur.s)) + LineFeeds(Content(cur.s)))
  /\ ((cur.op = "puts" /\ ~Idle) ~> Returned("puts"))

\* uart_puts("\nH\n") has returned after five stores, the last one after
\* waiting on a full FIFO.
C12_Witness ==
  /\ Returned("puts") /\ cur.s = <<10, 72, 10>>
  /\ Len(Wire) = 5 /\ nfull > 0


\* ======================================================================
\* The scratch buffer of uart_put_number (Spec)
\* ======================================================================

\* C13: in uart_put_number the digits are stored at buffer[1..10] only, at
\* most ten of them, buffer[11] holds the terminator throughout, buffer[0]
\* is never stored to, and the pointer handed to uart_puts points into
\* buffer[1..10].
C13_BufferBounds ==
  /\ [](npc # "idle" =>
          /\ ptr \in 1..11
          /\ buffer[11] = 0
          /\ 11 - ptr <= 10
          /\ (npc \in {"puts", "ret"} => ptr \in 1..10)
          /\ (spc # "idle" => Len(str) = 12 - ptr))
  /\ [][(npc # "idle" /\ npc' # "idle") =>
          /\ buffer'[0] = buffer[0]
          /\ ptr' \in {ptr, ptr - 1}
          /\ (buffer' # buffer => (ptr' = ptr - 1 /\ ptr' \in 1..10))]_vars

\* The ten digits of 4294967295 are in place and buffer + 1 is about to be
\* handed to uart_puts.
C13_Witness ==
  /\ npc = "puts" /\ cur.op = "put_number" /\ cur.n = <<65535, 65535>>
  /\ ptr = 1 /\ buffer[1] = 52 /\ buffer[10] = 53 /\ buffer[11] = 0


\* ======================================================================
\* The zero byte ends the input of uart_puts (Spec)
\* ======================================================================

\* C14: uart_puts transmits only the bytes before the first zero byte of its
\* input, each LF preceded by a CR; it never stores the zero byte nor any
\* byte after it to the data register.
C14_StopsAtNul ==
  cur.op = "puts" =>
    /\ IsPrefix(Wire, CrLf(Content(cur.s)))
    /\ \A i \in 1..Len(Wire) : Wire[i] # 0
    /\ IsPrefix(calls, CrLf(Content(cur.s)))
    /\ (Returned("puts") => Wire = CrLf(Content(cur.s)))

\* uart_puts("H\0i") has returned having sent H alone.
C14_Witness ==
  /\ Returned("puts") /\ cur.s = <<72, 0, 105>>
  /\ Wire = <<72>> /\ calls = <<72>>


\* ======================================================================
\* The counter of the main loop (SpecHello)
\* ======================================================================

\* uart_put_number(counter) is being called by the main loop.
PrintsCounter == mpc = LoopHead + 1 /\ mpc' = LoopHead + 2

\* C15: the value passed to uart_put_number by the main loop is always in
\* 0..100.  The first value is 0, the value after v < 100 is v + 1 with no
\* reset message in between, and the value after 100 is 0 with the reset
\* message printed exactly once in between.
C15_CounterRange ==
  /\ [](/\ (cur.op = "put_number" => cur.n[1] = 0 /\ cur.n[2] \in 0..CounterLimit)
        /\ (mpc \in {LoopHead, LoopHead + 1, LoopHead + 2, LoopHead + 3} =>
              counter[1] = 0 /\ counter[2] \in 0..CounterLimit)
        /\ hist.resets \in {0, 1})
  /\ [][PrintsCounter =>
          /\ cur'.op = "put_number" /\ cur'.n = counter /\ hist'.last = cur'.n
          /\ (hist.last = NoHist.last => cur'.n = <<0, 0>> /\ hist.resets = 0)
          /\ (hist.last # NoHist.last /\ hist.last[2] < CounterLimit =>
                cur'.n = <<0, hist.last[2] + 1>> /\ hist.resets = 0)
          /\ (hist.last = <<0, CounterLimit>> =>
                cur'.n = <<0, 0>> /\ hist.resets = 1)]_vars

\* 100 was the last value printed, the reset message went out once, and the
\* loop is about to print 0 again.
C15_Witness ==
  /\ mpc = LoopHead + 1 /\ Idle
  /\ hist.last = <<0, 100>> /\ hist.resets = 1
  /\ counter = <<0, 0>> /\ cur.op = "puts" /\ cur.s = CounterText


\* ======================================================================
\* What machine1 sends, and in which order (SpecNS)
\* ======================================================================

\* The bytes s as stores to the transmit register of the UART at base.
StoresTo(base, s) == [k \in 1..Len(s) |-> <<base, s[k]>>]

\* "[Machine1] Starting...\r\n"
StartLine ==
  <<
    91, 77, 97, 99, 104, 105, 110, 101, 49, 93, 32, 83, 116, 97, 114,
    116, 105, 110, 103, 46, 46, 46, 13, 10 >>

\* "[Machine1] Sending message <i>\r\n"
ConsoleLine(i) ==
  <<
    91, 77, 97, 99, 104, 105, 110, 101, 49, 93, 32, 83, 101, 110, 100,
    105, 110, 103, 32, 109, 101, 115, 115, 97, 103, 101, 32 >>
  \o <<48 + i, 13, 10>>

\* "MSG<i> from Machine1\r\n"
Uart1Msg(i) ==
  <<77, 83, 71, 48 + i>> \o
  <<
    32, 102, 114, 111, 109, 32, 77, 97, 99, 104, 105, 110, 101, 49, 13,
    10 >>

\* "[Machine1] Done sending\r\n"
DoneLine ==
  <<
    91, 77, 97, 99, 104, 105, 110, 101, 49, 93, 32, 68, 111, 110, 101,
    32, 115, 101, 110, 100, 105, 110, 103, 13, 10 >>

Round(i) == StoresTo(UART0_BASE, ConsoleLine(i)) \o StoresTo(UART1_BASE, Uart1Msg(i))

M1Expected ==
  StoresTo(UART0_BASE, StartLine) \o Round(0) \o Round(1) \o Round(2)
    \o StoresTo(UART0_BASE, DoneLine)

\* The stores of a log that went to the UART at base.
OnUart(log, base) == SelectSeq(log, LAMBDA e : e[1] = base)

\* C16: machine1 sends to UART1 exactly "MSG0 from Machine1\r\n", "MSG1 ..."
\* and "MSG2 ..." in this order; the console line of message i is complete
\* before the first byte of message i, "[Machine1] Done sending" comes after
\* the last byte of message 2, and nothing is stored to either UART after it.
C16_MessageOrder ==
  nsProg = "machine1" =>
    /\ IsPrefix(thrlog, M1Expected)
    /\ IsPrefix(ThrBytes(OnUart(thrlog, UART1_BASE)),
                Uart1Msg(0) \o Uart1Msg(1) \o Uart1Msg(2))
    /\ (nsPc \in {9, 10} /\ NsIdle =>
          /\ thrlog = M1Expected
          /\ ThrBytes(OnUart(thrlog, UART1_BASE))
               = Uart1Msg(0) \o Uart1Msg(1) \o Uart1Msg(2))

\* machine1 sleeps in wfi with everything sent.
C16_Witness ==
  /\ nsProg = "machine1" /\ nsPc = 10 /\ NsIdle /\ nsI = 3
  /\ Len(thrlog) = Len(M1Expected)
  /\ Len(OnUart(thrlog, UART1_BASE)) = 60
  /\ thrlog[Len(thrlog)] = <<UART0_BASE, 10>>


\* ======================================================================
\* memory_exploration (SpecMem)
\* ======================================================================

U32Add(a, b) ==
  <<(a[1] + b[1] + (a[2] + b[2]) \div Limb) % Limb, (a[2] + b[2]) % Limb>>

\* test_array[i]
TestArray(i) == mem[taAddr + 4 * i]
GlobalVar == mem[gvAddr]

\* The initial fill is complete.
AfterFill == mePc \in {"inc", "load", "mul", "store", "delay"}

\* An iteration of the loop has just ended (the loop head, or the delay
\* that ends the iteration).
AtIterationEnd == (mePc = "inc" /\ iters # <<0, 0>>) \/ mePc = "delay"

\* Iterations begun so far.
Begun == IF mePc \in {"load", "mul", "store", "delay"} THEN U32Inc(iters) ELSE iters

\* C17: after the initial fill test_array[i] = 0x1000 + i for i in 1..15; at
\* the end of every iteration test_array[0] = 2 * global_var mod 2^32; and
\* global_var is 0x12345678 plus the number of iterations begun, mod 2^32.
C17_ArrayAndCounter ==
  AfterFill =>
    /\ \A i \in 1..15 : TestArray(i) = U32(4096 + i)
    /\ (AtIterationEnd => TestArray(0) = U32Add(GlobalVar, GlobalVar))
    /\ GlobalVar = U32Add(<<4660, 22136>>, Begun)

\* The part of C17 that does not depend on where global_var lies.
LayoutFreePart ==
  /\ [](AfterFill =>
          /\ \A i \in 1..15 : TestArray(i) = U32(4096 + i)
          /\ (AtIterationEnd => TestArray(0) = U32Add(GlobalVar, GlobalVar)))
  /\ [][(AfterFill /\ GlobalVar' # GlobalVar) =>
          (mePc = "inc" /\ GlobalVar' = U32Add(GlobalVar, <<0, 1>>))]_vars

====
